---- MODULE Spec2Model ----
(***************************************************************************)
(* Model of torch/ao/quantization/qconfig_mapping.py: the QConfigMapping   *)
(* builder, its five setters, to_dict and from_dict.                       *)
(*                                                                         *)
(* Objects live in a heap (a sequence of QConfigMapping states, an object  *)
(* reference is an index), so that "returns self" is distinguishable from  *)
(* "returns a copy".  Every method is an operator from (heap, self, args)  *)
(* to [heap |-> the heap after the call, ret |-> the returned value].      *)
(***************************************************************************)
EXTENDS Integers, Sequences, FiniteSets, TLC

\* ---------------------------------------------------------------- bounds
MaxCalls == 3      \* setter calls made on the mapping in one run
MaxDictLen == 1    \* length of a list in a hand-written input dictionary

\* ---------------------------------------------------------------- inputs
None == "None"
QConfigs == {"q1", "q2"}
QConfigAny == QConfigs \cup {None}
ObjectTypes == {"Linear"}
Regexes == {"foo.*bar.*", "foo.*"}
ModuleNames == {"module1"}
OrderKeys == {<<"foo.bar", "linear", 0>>}

\* ------------------------------------------------------- module constants
GLOBAL_DICT_KEY == ""
OBJECT_TYPE_DICT_KEY == "object_type"
MODULE_NAME_REGEX_DICT_KEY == "module_name_regex"
MODULE_NAME_DICT_KEY == "module_name"
MODULE_NAME_OBJECT_TYPE_ORDER_DICT_KEY == "module_name_object_type_order"

\* ------------------------------------------------------------ dataclasses
QConfigObjectTypeEntry(object_type, qconfig) ==
    [object_type |-> object_type, qconfig |-> qconfig]

QConfigModuleNameRegexEntry(module_name_regex, qconfig) ==
    [module_name_regex |-> module_name_regex, qconfig |-> qconfig]

QConfigModuleNameEntry(module_name, qconfig) ==
    [module_name |-> module_name, qconfig |-> qconfig]

QConfigModuleNameObjectTypeOrderEntry(module_name, object_type, index, qconfig) ==
    [module_name |-> module_name, object_type |-> object_type,
     index |-> index, qconfig |-> qconfig]

\* mutant of fields: QConfigObjectTypeEntry declared with qconfig first
fields_config_first(e) ==
    IF "index" \in DOMAIN e
    THEN <<"module_name", "object_type", "index", "qconfig">>
    ELSE IF "object_type" \in DOMAIN e THEN <<"qconfig", "object_type">>
    ELSE IF "module_name_regex" \in DOMAIN e THEN <<"module_name_regex", "qconfig">>
    ELSE <<"module_name", "qconfig">>

\* dataclasses.fields(e): the field names of e's class in declaration order
fields(e) ==
    IF "index" \in DOMAIN e
    THEN <<"module_name", "object_type", "index", "qconfig">>
    ELSE IF "object_type" \in DOMAIN e THEN <<"object_type", "qconfig">>
    ELSE IF "module_name_regex" \in DOMAIN e THEN <<"module_name_regex", "qconfig">>
    ELSE <<"module_name", "qconfig">>

\* ------------------------------------------------------------ the mapping
\* QConfigMapping.__init__
QConfigMapping ==
    [global_qconfig |-> None,
     object_type_qconfigs |-> <<>>,
     module_name_regex_qconfigs |-> <<>>,
     module_name_qconfigs |-> <<>>,
     module_name_object_type_order_qconfigs |-> <<>>,
     object_type_qconfig_dict |-> <<>>,
     module_name_regex_qconfig_dict |-> <<>>,
     module_name_qconfig_dict |-> <<>>]

\* mutant of set_global: the first global config set is kept
set_global_keep_first(h, self, global_qconfig) ==
    [heap |-> IF h[self].global_qconfig = None
              THEN [h EXCEPT ![self].global_qconfig = global_qconfig]
              ELSE h,
     ret |-> self]

set_global(h, self, global_qconfig) ==
    [heap |-> [h EXCEPT ![self].global_qconfig = global_qconfig],
     ret |-> self]

\* mutant of set_object_type: an entry with the same object type is replaced
\* in place (the behaviour of an OrderedDict keyed by object type)
set_object_type_override(h, self, object_type, qconfig) ==
    LET l == h[self].object_type_qconfigs
    IN  [heap |-> [h EXCEPT ![self].object_type_qconfigs =
                       IF \E i \in 1..Len(l) : l[i].object_type = object_type
                       THEN [i \in 1..Len(l) |->
                                IF l[i].object_type = object_type
                                THEN QConfigObjectTypeEntry(object_type, qconfig)
                                ELSE l[i]]
                       ELSE Append(l, QConfigObjectTypeEntry(object_type, qconfig))],
         ret |-> self]

set_object_type(h, self, object_type, qconfig) ==
    [heap |-> [h EXCEPT ![self].object_type_qconfigs =
                   Append(@, QConfigObjectTypeEntry(object_type, qconfig))],
     ret |-> self]

\* mutant of set_module_name_regex: insert(0, ...) instead of append
set_module_name_regex_front(h, self, module_name_regex, qconfig) ==
    [heap |-> [h EXCEPT ![self].module_name_regex_qconfigs =
                   <<QConfigModuleNameRegexEntry(module_name_regex, qconfig)>> \o @],
     ret |-> self]

set_module_name_regex(h, self, module_name_regex, qconfig) ==
    [heap |-> [h EXCEPT ![self].module_name_regex_qconfigs =
                   Append(@, QConfigModuleNameRegexEntry(module_name_regex, qconfig))],
     ret |-> self]

\* mutant of set_module_name: the setter returns an updated copy
set_module_name_copy(h, self, module_name, qconfig) ==
    [heap |-> Append(h, [h[self] EXCEPT !.module_name_qconfigs =
                            Append(@, QConfigModuleNameEntry(module_name, qconfig))]),
     ret |-> Len(h) + 1]

set_module_name(h, self, module_name, qconfig) ==
    [heap |-> [h EXCEPT ![self].module_name_qconfigs =
                   Append(@, QConfigModuleNameEntry(module_name, qconfig))],
     ret |-> self]

\* mutant of set_module_name_object_type_order: the entry is also registered
\* as a module name entry
set_module_name_object_type_order_and_name(h, self, module_name, object_type, index, qconfig) ==
    [heap |-> [h EXCEPT ![self].module_name_object_type_order_qconfigs =
                   Append(@, QConfigModuleNameObjectTypeOrderEntry(
                                 module_name, object_type, index, qconfig)),
               ![self].module_name_qconfigs =
                   Append(@, QConfigModuleNameEntry(module_name, qconfig))],
     ret |-> self]

set_module_name_object_type_order(h, self, module_name, object_type, index, qconfig) ==
    [heap |-> [h EXCEPT ![self].module_name_object_type_order_qconfigs =
                   Append(@, QConfigModuleNameObjectTypeOrderEntry(
                                 module_name, object_type, index, qconfig))],
     ret |-> self]

\* to_dict's local helper: a list of dataclasses to a list of tuples
to_tuple_list(dataclass_list) ==
    [i \in 1..Len(dataclass_list) |->
        LET e == dataclass_list[i]
            f == fields(e)
        IN  [j \in 1..Len(f) |-> e[f[j]]]]

\* mutant of to_dict: the lists are moved into the result, not copied
to_dict_draining(h, self) ==
    [heap |-> [h EXCEPT ![self].object_type_qconfigs = <<>>,
                        ![self].module_name_regex_qconfigs = <<>>,
                        ![self].module_name_qconfigs = <<>>,
                        ![self].module_name_object_type_order_qconfigs = <<>>],
     ret |-> (GLOBAL_DICT_KEY :> h[self].global_qconfig)
          @@ (OBJECT_TYPE_DICT_KEY :> to_tuple_list(h[self].object_type_qconfigs))
          @@ (MODULE_NAME_REGEX_DICT_KEY :>
                  to_tuple_list(h[self].module_name_regex_qconfigs))
          @@ (MODULE_NAME_DICT_KEY :> to_tuple_list(h[self].module_name_qconfigs))
          @@ (MODULE_NAME_OBJECT_TYPE_ORDER_DICT_KEY :>
                  to_tuple_list(h[self].module_name_object_type_order_qconfigs))]

to_dict(h, self) ==
    [heap |-> h,
     ret |-> (GLOBAL_DICT_KEY :> h[self].global_qconfig)
          @@ (OBJECT_TYPE_DICT_KEY :> to_tuple_list(h[self].object_type_qconfigs))
          @@ (MODULE_NAME_REGEX_DICT_KEY :>
                  to_tuple_list(h[self].module_name_regex_qconfigs))
          @@ (MODULE_NAME_DICT_KEY :> to_tuple_list(h[self].module_name_qconfigs))
          @@ (MODULE_NAME_OBJECT_TYPE_ORDER_DICT_KEY :>
                  to_tuple_list(h[self].module_name_object_type_order_qconfigs))]

\* qconfig_dict.get(key, [])
get(qconfig_dict, key) ==
    IF key \in DOMAIN qconfig_dict THEN qconfig_dict[key] ELSE <<>>

\* the four for-loops of from_dict, each unpacking a tuple per iteration
RECURSIVE from_dict_object_type(_, _, _)
from_dict_object_type(h, conf, l) ==
    IF Len(l) = 0 THEN h
    ELSE from_dict_object_type(
             set_object_type(h, conf, Head(l)[1], Head(l)[2]).heap, conf, Tail(l))

\* mutant of from_dict_module_name_regex: the list is walked from its end
RECURSIVE from_dict_module_name_regex_reversed(_, _, _)
from_dict_module_name_regex_reversed(h, conf, l) ==
    IF Len(l) = 0 THEN h
    ELSE from_dict_module_name_regex_reversed(
             set_module_name_regex(h, conf, l[Len(l)][1], l[Len(l)][2]).heap,
             conf, SubSeq(l, 1, Len(l) - 1))

RECURSIVE from_dict_module_name_regex_loop(_, _, _)
from_dict_module_name_regex_loop(h, conf, l) ==
    IF Len(l) = 0 THEN h
    ELSE from_dict_module_name_regex_loop(
             set_module_name_regex(h, conf, Head(l)[1], Head(l)[2]).heap, conf, Tail(l))

from_dict_module_name_regex(h, conf, l) == from_dict_module_name_regex_loop(h, conf, l)

RECURSIVE from_dict_module_name(_, _, _)
from_dict_module_name(h, conf, l) ==
    IF Len(l) = 0 THEN h
    ELSE from_dict_module_name(
             set_module_name(h, conf, Head(l)[1], Head(l)[2]).heap, conf, Tail(l))

RECURSIVE from_dict_module_name_object_type_order(_, _, _)
from_dict_module_name_object_type_order(h, conf, l) ==
    IF Len(l) = 0 THEN h
    ELSE from_dict_module_name_object_type_order(
             set_module_name_object_type_order(
                 h, conf, Head(l)[1], Head(l)[2], Head(l)[3], Head(l)[4]).heap,
             conf, Tail(l))

\* mutant of from_dict: the "module_name_object_type_order" key is not read
from_dict_without_order(h, qconfig_dict) ==
    LET h0 == Append(h, QConfigMapping)
        conf == Len(h0)
        h1 == IF GLOBAL_DICT_KEY \in DOMAIN qconfig_dict
              THEN set_global(h0, conf, qconfig_dict[GLOBAL_DICT_KEY]).heap
              ELSE h0
        h2 == from_dict_object_type(h1, conf, get(qconfig_dict, OBJECT_TYPE_DICT_KEY))
        h3 == from_dict_module_name_regex(
                  h2, conf, get(qconfig_dict, MODULE_NAME_REGEX_DICT_KEY))
        h4 == from_dict_module_name(h3, conf, get(qconfig_dict, MODULE_NAME_DICT_KEY))
    IN  [heap |-> h4, ret |-> conf]

from_dict(h, qconfig_dict) ==
    LET h0 == Append(h, QConfigMapping)
        conf == Len(h0)
        h1 == IF GLOBAL_DICT_KEY \in DOMAIN qconfig_dict
              THEN set_global(h0, conf, qconfig_dict[GLOBAL_DICT_KEY]).heap
              ELSE h0
        h2 == from_dict_object_type(h1, conf, get(qconfig_dict, OBJECT_TYPE_DICT_KEY))
        h3 == from_dict_module_name_regex(
                  h2, conf, get(qconfig_dict, MODULE_NAME_REGEX_DICT_KEY))
        h4 == from_dict_module_name(h3, conf, get(qconfig_dict, MODULE_NAME_DICT_KEY))
        h5 == from_dict_module_name_object_type_order(
                  h4, conf, get(qconfig_dict, MODULE_NAME_OBJECT_TYPE_ORDER_DICT_KEY))
    IN  [heap |-> h5, ret |-> conf]

\* ------------------------------------------------------------------ state
VARIABLES
    heap,    \* the QConfigMapping objects constructed so far
    ret,     \* the value the last setter call returned (0: no call yet)
    calls,   \* the setter calls made so far, in order
    d,       \* the dictionary at hand: {} or the last to_dict result
    conf     \* <<the mapping the last from_dict call returned>>, <<>> before it

vars == <<heap, ret, calls, d, conf>>

\* the mapping built by `qconfig_mapping = QConfigMapping()`
m == 1

\* a setter is called on the variable or, chained, on the last returned value
Receivers == {m} \cup (IF ret # 0 THEN {ret} ELSE {})

Call(op, self, args) == [op |-> op, self |-> self, args |-> args]

Init ==
    /\ heap = <<QConfigMapping>>
    /\ ret = 0
    /\ calls = <<>>
    /\ d = <<>>
    /\ conf = <<>>

SetGlobal ==
    \E self \in Receivers, q \in QConfigAny :
        /\ Len(calls) < MaxCalls
        /\ LET r == set_global(heap, self, q)
           IN  heap' = r.heap /\ ret' = r.ret
        /\ calls' = Append(calls, Call("set_global", self, <<q>>))
        /\ UNCHANGED <<d, conf>>

SetObjectType ==
    \E self \in Receivers, t \in ObjectTypes, q \in QConfigs :
        /\ Len(calls) < MaxCalls
        /\ LET r == set_object_type(heap, self, t, q)
           IN  heap' = r.heap /\ ret' = r.ret
        /\ calls' = Append(calls, Call("set_object_type", self, <<t, q>>))
        /\ UNCHANGED <<d, conf>>

SetModuleNameRegex ==
    \E self \in Receivers, x \in Regexes, q \in QConfigs :
        /\ Len(calls) < MaxCalls
        /\ LET r == set_module_name_regex(heap, self, x, q)
           IN  heap' = r.heap /\ ret' = r.ret
        /\ calls' = Append(calls, Call("set_module_name_regex", self, <<x, q>>))
        /\ UNCHANGED <<d, conf>>

SetModuleName ==
    \E self \in Receivers, n \in ModuleNames, q \in QConfigs :
        /\ Len(calls) < MaxCalls
        /\ LET r == set_module_name(heap, self, n, q)
           IN  heap' = r.heap /\ ret' = r.ret
        /\ calls' = Append(calls, Call("set_module_name", self, <<n, q>>))
        /\ UNCHANGED <<d, conf>>

SetModuleNameObjectTypeOrder ==
    \E self \in Receivers, k \in OrderKeys, q \in QConfigs :
        /\ Len(calls) < MaxCalls
        /\ LET r == set_module_name_object_type_order(heap, self, k[1], k[2], k[3], q)
           IN  heap' = r.heap /\ ret' = r.ret
        /\ calls' = Append(calls, Call("set_module_name_object_type_order", self,
                                       <<k[1], k[2], k[3], q>>))
        /\ UNCHANGED <<d, conf>>

ToDict ==
    /\ LET r == to_dict(heap, m)
       IN  heap' = r.heap /\ d' = r.ret
    /\ UNCHANGED <<ret, calls, conf>>

\* conf = QConfigMapping.from_dict(d): the new object is held by conf alone,
\* heap keeps the objects that existed before the call, as the call left them
FromDict ==
    /\ LET r == from_dict(heap, d)
       IN  /\ heap' = SubSeq(r.heap, 1, Len(heap))
           /\ conf' = <<r.heap[r.ret]>>
    /\ UNCHANGED <<ret, calls, d>>

Next ==
    \/ SetGlobal
    \/ SetObjectType
    \/ SetModuleNameRegex
    \/ SetModuleName
    \/ SetModuleNameObjectTypeOrder
    \/ ToDict
    \/ FromDict

Spec == Init /\ [][Next]_vars

\* ------------------------------------------------------------ vocabulary
UNKNOWN_DICT_KEY == "unknown_key"

KnownKeys ==
    {GLOBAL_DICT_KEY, OBJECT_TYPE_DICT_KEY, MODULE_NAME_REGEX_DICT_KEY,
     MODULE_NAME_DICT_KEY, MODULE_NAME_OBJECT_TYPE_ORDER_DICT_KEY}

ListOps ==
    {"set_object_type", "set_module_name_regex", "set_module_name",
     "set_module_name_object_type_order"}

\* the attribute a list setter appends to, and the to_dict key of that list
ListField(op) ==
    CASE op = "set_object_type" -> "object_type_qconfigs"
      [] op = "set_module_name_regex" -> "module_name_regex_qconfigs"
      [] op = "set_module_name" -> "module_name_qconfigs"
      [] op = "set_module_name_object_type_order" ->
             "module_name_object_type_order_qconfigs"

DictKey(op) ==
    CASE op = "set_object_type" -> OBJECT_TYPE_DICT_KEY
      [] op = "set_module_name_regex" -> MODULE_NAME_REGEX_DICT_KEY
      [] op = "set_module_name" -> MODULE_NAME_DICT_KEY
      [] op = "set_module_name_object_type_order" ->
             MODULE_NAME_OBJECT_TYPE_ORDER_DICT_KEY

ListFields == {ListField(op) : op \in ListOps}

\* the calls of one setter made on the mapping m, in call order
CallsOf(op) ==
    LET Test(c) == c.op = op /\ c.self = m
    IN  SelectSeq(calls, Test)

ArgsOf(op) == [i \in 1..Len(CallsOf(op)) |-> CallsOf(op)[i].args]

\* key fields and config of a list setter's argument tuple
KeyOf(args) == SubSeq(args, 1, Len(args) - 1)
ConfigOf(args) == args[Len(args)]

\* the five public attributes of a mapping
Five(o) ==
    <<o.global_qconfig, o.object_type_qconfigs, o.module_name_regex_qconfigs,
      o.module_name_qconfigs, o.module_name_object_type_order_qconfigs>>

IsPrefix(s, t) == Len(s) <= Len(t) /\ SubSeq(t, 1, Len(s)) = s

\* ------------------------------------------------------------------ C1
\* C1: for every reachable mapping R, from_dict(R.to_dict()) is a mapping
\* whose global_qconfig and four entry lists equal R's, element by element
\* and in the same order.
RoundTrip ==
    LET out == to_dict(heap, m).ret
        r == from_dict(heap, out)
    IN  /\ Five(r.heap[r.ret]) = Five(heap[m])
        /\ r.ret # m

\* a from_dict result that reproduces a mapping holding a global config and
\* two regex entries under different regexes
WitnessRoundTrip ==
    /\ Len(conf) = 1
    /\ DOMAIN d = KnownKeys
    /\ Five(conf[1]) = Five(heap[m])
    /\ heap[m].global_qconfig # None
    /\ Len(heap[m].module_name_regex_qconfigs) = 2
    /\ heap[m].module_name_regex_qconfigs[1].module_name_regex
           # heap[m].module_name_regex_qconfigs[2].module_name_regex

LastGlobal ==
    LET g == CallsOf("set_global")
    IN  IF Len(g) = 0 THEN None ELSE g[Len(g)].args[1]

ConfigsIn(o) ==
    {o.global_qconfig}
    \cup UNION {{o[f][i].qconfig : i \in 1..Len(o[f])} : f \in ListFields}
    \cup UNION {{o[f][i] : i \in 1..Len(o[f])} :
                   f \in {"object_type_qconfig_dict",
                          "module_name_regex_qconfig_dict",
                          "module_name_qconfig_dict"}}

GlobalOverwrite ==
    /\ heap[m].global_qconfig = LastGlobal
    /\ to_dict(heap, m).ret[GLOBAL_DICT_KEY] = LastGlobal
    /\ DOMAIN heap[m] = DOMAIN QConfigMapping
    /\ ConfigsIn(heap[m]) \subseteq
           {LastGlobal}
           \cup UNION {{ConfigOf(ArgsOf(op)[i]) : i \in 1..Len(ArgsOf(op))} :
                          op \in ListOps}

\* set_global(A), another setter, set_global(B) with B # A, A given to no
\* list setter
WitnessGlobalOverwrite ==
    /\ Len(calls) = 3
    /\ calls[1].op = "set_global"
    /\ calls[2].op \in ListOps
    /\ calls[3].op = "set_global"
    /\ calls[1].args[1] \in QConfigs
    /\ calls[3].args[1] \in QConfigs \ {calls[1].args[1]}
    /\ ConfigOf(calls[2].args) = calls[3].args[1]
    /\ heap[m].global_qconfig = calls[3].args[1]

OverrideExistingKey ==
    [][\A op \in ListOps \ {"set_module_name_object_type_order"} :
          (/\ calls' # calls
           /\ calls'[Len(calls')].op = op
           /\ calls'[Len(calls')].self = m
           /\ \E i \in 1..Len(ArgsOf(op)) :
                  KeyOf(ArgsOf(op)[i]) = KeyOf(calls'[Len(calls')].args))
          => LET old == to_tuple_list(heap[m][ListField(op)])
                 new == to_tuple_list(heap'[m][ListField(op)])
                 c == calls'[Len(calls')].args
             IN  new = [i \in 1..Len(old) |->
                           IF KeyOf(old[i]) = KeyOf(c) THEN c ELSE old[i]]]_vars

\* ------------------------------------------------------------------ C6
\* C6: from_dict reads the five known keys only: its result is the mapping
\* whose global is the value under "" (None when absent) and whose lists
\* hold one entry per tuple under their key (empty when absent), the same
\* as for the dictionary restricted to the known keys.
Restrict(D) == [k \in DOMAIN D \cap KnownKeys |-> D[k]]

Lst(D, k) == IF k \in DOMAIN D THEN D[k] ELSE <<>>

ExpectedMapping(D) ==
    [QConfigMapping EXCEPT
        !.global_qconfig = IF GLOBAL_DICT_KEY \in DOMAIN D THEN D[GLOBAL_DICT_KEY]
                           ELSE None,
        !.object_type_qconfigs =
            [i \in 1..Len(Lst(D, OBJECT_TYPE_DICT_KEY)) |->
                LET t == Lst(D, OBJECT_TYPE_DICT_KEY)[i]
                IN  [object_type |-> t[1], qconfig |-> t[2]]],
        !.module_name_regex_qconfigs =
            [i \in 1..Len(Lst(D, MODULE_NAME_REGEX_DICT_KEY)) |->
                LET t == Lst(D, MODULE_NAME_REGEX_DICT_KEY)[i]
                IN  [module_name_regex |-> t[1], qconfig |-> t[2]]],
        !.module_name_qconfigs =
            [i \in 1..Len(Lst(D, MODULE_NAME_DICT_KEY)) |->
                LET t == Lst(D, MODULE_NAME_DICT_KEY)[i]
                IN  [module_name |-> t[1], qconfig |-> t[2]]],
        !.module_name_object_type_order_qconfigs =
            [i \in 1..Len(Lst(D, MODULE_NAME_OBJECT_TYPE_ORDER_DICT_KEY)) |->
                LET t == Lst(D, MODULE_NAME_OBJECT_TYPE_ORDER_DICT_KEY)[i]
                IN  [module_name |-> t[1], object_type |-> t[2],
                     index |-> t[3], qconfig |-> t[4]]]]

FromDictKeyTolerance ==
    LET r == from_dict(heap, d)
        k == from_dict(heap, Restrict(d))
    IN  /\ r.heap[r.ret] = ExpectedMapping(Restrict(d))
        /\ k.heap[k.ret] = r.heap[r.ret]
        /\ (DOMAIN d \cap KnownKeys = {} => r.heap[r.ret] = QConfigMapping)
        /\ (Len(conf) = 1 => conf[1] = ExpectedMapping(Restrict(d)))

\* from_dict has run on a dictionary with an unknown key, without "" and
\* without "module_name", and with a regex entry
WitnessFromDictKeyTolerance ==
    /\ Len(conf) = 1
    /\ UNKNOWN_DICT_KEY \in DOMAIN d
    /\ GLOBAL_DICT_KEY \notin DOMAIN d
    /\ MODULE_NAME_DICT_KEY \notin DOMAIN d
    /\ MODULE_NAME_REGEX_DICT_KEY \in DOMAIN d
    /\ Len(d[MODULE_NAME_REGEX_DICT_KEY]) >= 1
    /\ conf[1].global_qconfig = None
    /\ Len(conf[1].module_name_regex_qconfigs) = Len(d[MODULE_NAME_REGEX_DICT_KEY])

\* ------------------------------------------------------------------ C7
\* C7: to_dict returns a dictionary with exactly the five keys; "" holds the
\* global config (None when never set); each list holds, per entry, a tuple
\* of arity 2, 2, 2 and 4 with the fields in declaration order, config last.
ToDictShape ==
    LET out == to_dict(heap, m).ret
        o == heap[m]
        ot == out[OBJECT_TYPE_DICT_KEY]
        re == out[MODULE_NAME_REGEX_DICT_KEY]
        mn == out[MODULE_NAME_DICT_KEY]
        mo == out[MODULE_NAME_OBJECT_TYPE_ORDER_DICT_KEY]
    IN  /\ DOMAIN out = KnownKeys
        /\ out[GLOBAL_DICT_KEY] = o.global_qconfig
        /\ (Len(CallsOf("set_global")) = 0 => out[GLOBAL_DICT_KEY] = None)
        /\ Len(ot) = Len(o.object_type_qconfigs)
        /\ Len(re) = Len(o.module_name_regex_qconfigs)
        /\ Len(mn) = Len(o.module_name_qconfigs)
        /\ Len(mo) = Len(o.module_name_object_type_order_qconfigs)
        /\ \A i \in 1..Len(ot) :
               /\ Len(ot[i]) = 2
               /\ ot[i] = <<o.object_type_qconfigs[i].object_type,
                            o.object_type_qconfigs[i].qconfig>>
        /\ \A i \in 1..Len(re) :
               /\ Len(re[i]) = 2
               /\ re[i] = <<o.module_name_regex_qconfigs[i].module_name_regex,
                            o.module_name_regex_qconfigs[i].qconfig>>
        /\ \A i \in 1..Len(mn) :
               /\ Len(mn[i]) = 2
               /\ mn[i] = <<o.module_name_qconfigs[i].module_name,
                            o.module_name_qconfigs[i].qconfig>>
        /\ \A i \in 1..Len(mo) :
               /\ Len(mo[i]) = 4
               /\ mo[i] = <<o.module_name_object_type_order_qconfigs[i].module_name,
                            o.module_name_object_type_order_qconfigs[i].object_type,
                            o.module_name_object_type_order_qconfigs[i].index,
                            o.module_name_object_type_order_qconfigs[i].qconfig>>

\* a to_dict result of a mapping with unset global, an order entry and an
\* object_type entry, and no regex entry
WitnessToDictShape ==
    /\ DOMAIN d = KnownKeys
    /\ d[GLOBAL_DICT_KEY] = None
    /\ Len(d[MODULE_NAME_OBJECT_TYPE_ORDER_DICT_KEY]) >= 1
    /\ Len(d[OBJECT_TYPE_DICT_KEY]) >= 1
    /\ Len(d[MODULE_NAME_REGEX_DICT_KEY]) = 0
    /\ Len(calls) = 2

\* ------------------------------------------------------------------ C8
\* C8: every setter returns the object it was called on and constructs no
\* object, so calls chained on the returned value leave the mapping in the
\* state the same calls made as separate statements on m leave it in.
Apply(h, self, c) ==
    CASE c.op = "set_global" -> set_global(h, self, c.args[1])
      [] c.op = "set_object_type" -> set_object_type(h, self, c.args[1], c.args[2])
      [] c.op = "set_module_name_regex" ->
             set_module_name_regex(h, self, c.args[1], c.args[2])
      [] c.op = "set_module_name" -> set_module_name(h, self, c.args[1], c.args[2])
      [] c.op = "set_module_name_object_type_order" ->
             set_module_name_object_type_order(
                 h, self, c.args[1], c.args[2], c.args[3], c.args[4])

RECURSIVE Separately(_)
Separately(cs) ==
    IF Len(cs) = 0 THEN <<QConfigMapping>>
    ELSE Apply(Separately(SubSeq(cs, 1, Len(cs) - 1)), m, cs[Len(cs)]).heap

Chaining ==
    /\ Len(calls) > 0 => ret = calls[Len(calls)].self
    /\ ret \in {0, m}
    /\ Len(heap) = 1
    /\ Five(heap[m]) = Five(Separately(calls)[m])

\* three calls of three different setters, each returning the mapping
WitnessChaining ==
    /\ Len(calls) = 3
    /\ ret = m
    /\ calls[1].op = "set_global"
    /\ calls[2].op = "set_module_name"
    /\ calls[3].op = "set_module_name_object_type_order"
    /\ Len(heap[m].module_name_qconfigs) = 1
    /\ Len(heap[m].module_name_object_type_order_qconfigs) = 1

\* ------------------------------------------------------------------ C9
\* C9: a setter changes only its own attribute of the object it is called
\* on: set_global leaves the four lists as they were, a list setter leaves
\* the global config, the three other lists and the entries already in its
\* own list as they were; no other object changes.
FrameStep ==
    calls' # calls =>
        LET c == calls'[Len(calls')]
            o == heap[c.self]
            n == heap'[c.self]
        IN  /\ DOMAIN heap' = DOMAIN heap
            /\ \A i \in DOMAIN heap : i # c.self => heap'[i] = heap[i]
            /\ c.op = "set_global"
                   => [n EXCEPT !.global_qconfig = o.global_qconfig] = o
            /\ c.op \in ListOps
                   => /\ [n EXCEPT ![ListField(c.op)] = o[ListField(c.op)]] = o
                      /\ IsPrefix(o[ListField(c.op)], n[ListField(c.op)])

InitEmpty ==
    /\ heap[m].global_qconfig = None
    /\ \A f \in ListFields : heap[m][f] = <<>>

AppendOnlyStep ==
    \A i \in DOMAIN heap :
        /\ i \in DOMAIN heap'
        /\ \A f \in ListFields : IsPrefix(heap[i][f], heap'[i][f])
        /\ calls' = calls => heap'[i] = heap[i]

SeqsUpTo(S, n) == UNION {[1..k -> S] : k \in 0..n}

Opt(key, Vals) == {<<>>} \cup {key :> v : v \in Vals}

OrderTuples == {<<k[1], k[2], k[3], q>> : k \in OrderKeys, q \in QConfigs}

InputDicts ==
    {g @@ a @@ b @@ c @@ e @@ u :
        g \in Opt(GLOBAL_DICT_KEY, QConfigAny),
        a \in Opt(OBJECT_TYPE_DICT_KEY, SeqsUpTo(ObjectTypes \X QConfigs, MaxDictLen)),
        b \in Opt(MODULE_NAME_REGEX_DICT_KEY, SeqsUpTo(Regexes \X QConfigs, MaxDictLen)),
        c \in Opt(MODULE_NAME_DICT_KEY, SeqsUpTo(ModuleNames \X QConfigs, MaxDictLen)),
        e \in Opt(MODULE_NAME_OBJECT_TYPE_ORDER_DICT_KEY,
                  SeqsUpTo(OrderTuples, MaxDictLen)),
        u \in Opt(UNKNOWN_DICT_KEY, {"anything"})}

InitFromDict ==
    /\ heap = <<QConfigMapping>>
    /\ ret = 0
    /\ calls = <<>>
    /\ d \in InputDicts
    /\ conf = <<>>

NextFromDict == FromDict

SpecFromDict == InitFromDict /\ [][NextFromDict]_vars

====
